---- MODULE Spec2Model ----
(***************************************************************************)
(* Model of lib/ansible/modules/cloud/ovirt/ovirt_disks.py:                *)
(*   - upload_disk_image      (SpecUpload)                                 *)
(*   - DisksModule.update_storage_domains (SpecStorage)                    *)
(*   - main, DisksModule, DiskAttachmentsModule (Spec)                     *)
(* The management service and the proxy are the environment: every answer  *)
(* they may give is a nondeterministic choice.                             *)
(***************************************************************************)
EXTENDS Integers, Sequences, FiniteSets, TLC

(***************************************************************************)
(* Bounds of the model.                                                    *)
(***************************************************************************)
\* image files hold up to MaxChunks whole chunks, give or take one byte
MaxChunks == 2
\* the caller's timeout is 1..MaxTimeout poll intervals
MaxTimeout == 2
\* update_storage_domains is given up to MaxDomains names in storage_domains
MaxDomains == 2

\* sleeps of one poll loop are counted up to here; the counter then saturates
\* (the loop itself goes on)
MaxWaited == MaxTimeout + 2

Min(a, b) == IF a < b THEN a ELSE b

(***************************************************************************)
(* Errors and results.  An error is the exception that leaves a function;  *)
(* phase is the text the exception carries, "-" when it carries none.      *)
(***************************************************************************)
Err(k, p) == [kind |-> k, phase |-> p]
NoError == Err("none", "-")
ReturnTrue == Err("True", "-")
RemoteOperationError == Err("RemoteOperationError", "-")
TransportError == Err("TransportError", "-")
TransferChunkError == Err("TransferChunkError", "-")
TimeoutExceeded == Err("TimeoutExceeded", "-")
ReferenceNotFoundError == Err("ReferenceNotFoundError", "-")

(***************************************************************************)
(* otypes.ImageTransferPhase                                               *)
(***************************************************************************)
Phases ==
  {"INITIALIZING", "TRANSFERRING", "FINALIZING_SUCCESS", "FINALIZING_FAILURE",
   "FINISHED_SUCCESS", "FINISHED_FAILURE", "CANCELLED", "UNKNOWN"}

\* str(phase), as "%s" % transfer.phase formats it: the value of the enum member
PhaseStr(p) ==
  CASE p = "INITIALIZING" -> "initializing"
    [] p = "TRANSFERRING" -> "transferring"
    [] p = "FINALIZING_SUCCESS" -> "finalizing_success"
    [] p = "FINALIZING_FAILURE" -> "finalizing_failure"
    [] p = "FINISHED_SUCCESS" -> "finished_success"
    [] p = "FINISHED_FAILURE" -> "finished_failure"
    [] p = "CANCELLED" -> "cancelled"
    [] p = "UNKNOWN" -> "unknown"

\* the phases in which the finalize poll goes on (lines 283-286)
FinalizeWaitPhases_OnlyTransferring == {"TRANSFERRING"}
FinalizeWaitPhases == {"TRANSFERRING", "FINALIZING_SUCCESS"}

\* the phases that make the upload fail (lines 289-294)
FailurePhases_NoCancelled == {"UNKNOWN", "FINISHED_FAILURE", "FINALIZING_FAILURE"}
FailurePhases ==
  {"UNKNOWN", "FINISHED_FAILURE", "FINALIZING_FAILURE", "CANCELLED"}

\* the exception of lines 295-297
TransferFailedError(p) == Err("TransferFailedError", PhaseStr(p))

(***************************************************************************)
(* The remote transfer session.  One step of the session's state machine;  *)
(* the success phases are entered only once finalization was requested.    *)
(***************************************************************************)
PhaseStep(p, finalized) ==
  CASE p = "INITIALIZING" -> {"TRANSFERRING", "CANCELLED", "UNKNOWN"}
    [] p = "TRANSFERRING" ->
         {"FINALIZING_FAILURE", "CANCELLED", "UNKNOWN"}
           \cup (IF finalized THEN {"FINALIZING_SUCCESS"} ELSE {})
    [] p = "FINALIZING_SUCCESS" -> {"FINISHED_SUCCESS", "FINISHED_FAILURE", "UNKNOWN"}
    [] p = "FINALIZING_FAILURE" -> {"FINISHED_FAILURE", "UNKNOWN"}
    [] OTHER -> {}

\* the phases the session may be in one poll interval after it was in p
PhaseAfter(p, finalized) ==
  LET S1 == {p} \cup PhaseStep(p, finalized)
      S2 == S1 \cup UNION {PhaseStep(q, finalized) : q \in S1}
      S3 == S2 \cup UNION {PhaseStep(q, finalized) : q \in S2}
  IN  S3 \cup UNION {PhaseStep(q, finalized) : q \in S3}

(***************************************************************************)
(* upload_disk_image: constants and pure parts                             *)
(***************************************************************************)
\* chunk_size = 1024 * 1024 * 8 (line 266)
chunk_size == 8388608

\* os.path.getsize(image_path): the sizes tried
FileSizes ==
  {s \in {k * chunk_size + d : k \in 0..MaxChunks, d \in {-1, 0, 1}} : s >= 0}

\* the statuses the proxy answers a PUT with
Statuses == {200, 399, 400, 500}

\* line 278: r.status >= 400
ChunkFailed_Above400(status) == status > 400
ChunkFailed(status) == status >= 400

\* line 270: "bytes %d-%d/%d" % (pos, min(pos + chunk_size, size) - 1, size)
ContentRange_EndExclusive(p, s) == <<p, Min(p + chunk_size, s), s>>
ContentRange(p, s) == <<p, Min(p + chunk_size, s) - 1, s>>

VARIABLES
  \* upload_disk_image
  upc,            \* position in upload_disk_image
  size,           \* size of the image file
  pos,            \* pos of the chunk loop
  transfer,       \* transfer.phase as last read ("none" before the session exists)
  session,        \* the phase of the remote session
  puts,           \* the PUT requests sent: <<Content-Range, status answered>>
  extends,        \* number of transfer_service.extend() calls
  finalizes,      \* number of transfer_service.finalize() calls
  pending,        \* the exception raised in the try block, in flight through finally
  uresult,        \* how upload_disk_image ended
  waited,         \* sleeps of the current poll loop (saturating)
  timeout,        \* module.params['timeout'], in poll intervals
  upload_lun,     \* module.params.get('logical_unit') is set
  lun_status,     \* status of the disk the LUN wait polls
  auth,           \* module.params['auth']: insecure flag and CA file path
  context,        \* the ssl context of the proxy connection ("none" before it is built)
  \* DisksModule.update_storage_domains
  spc,            \* position in update_storage_domains
  rdisk,          \* the disk as the management service holds it
  sd_disk,        \* disk = disk_service.get() of line 351
  p_storage_domain,   \* module.params['storage_domain'] (None when not given)
  p_storage_domains,  \* module.params['storage_domains'] (<<>> when not given)
  changed,        \* the local changed
  sd_i,           \* index of the for loop of line 373
  sactions,       \* the move and copy actions sent: <<action, storage domain id>>
  sresult,        \* how update_storage_domains ended
  \* main
  mpc,            \* position in main
  run,            \* number of the invocation of the module
  params,         \* module.params, as the caller gave them
  p_id,           \* module.params['id'] (set at line 469)
  disks,          \* the disks of the management service
  attachments,    \* the disk attachments of the VM
  disk,           \* the local disk of main: id of the disk found by LUN id
  ret,            \* the local ret of main
  is_new_disk,    \* the local is_new_disk of main
  ops,            \* the requests this invocation sent to the management service
  mresult,        \* what the invocation reported (exit_json / fail_json)
  closed,         \* the connection.close() calls of this invocation: the logout
                  \* argument of each
  prev            \* how the previous invocation went

uvars == <<upc, size, pos, transfer, session, puts, extends, finalizes, pending,
           uresult, waited, timeout, upload_lun, lun_status, auth, context>>

\* the state of upload_disk_image but for the timer, which the waits share
uonly == <<upc, size, pos, transfer, session, puts, extends, finalizes, pending,
           uresult, upload_lun, lun_status, auth, context>>

svars == <<spc, rdisk, sd_disk, p_storage_domain, p_storage_domains, changed, sd_i,
           sactions, sresult>>

mvars == <<mpc, run, params, p_id, disks, attachments, disk, ret, is_new_disk, ops,
           mresult, closed, prev>>

not_uvars == <<svars, mvars>>

vars == <<uvars, svars, mvars>>

Tick(w) == Min(w + 1, MaxWaited)

\* a parameter or attribute that may be None: <<>> is None, <<v>> is the value v
None == <<>>
Some(v) == <<v>>
Val(o) == o[1]

\* no disk entity
NoDisk == [type |-> "none", sd |-> "-", status |-> "-"]

NoId == "none"
NoRet == [changed |-> FALSE, id |-> NoId]
NoResult == [failed |-> FALSE, changed |-> FALSE, error |-> NoError]
NoParams == [state |-> "none"]
NoPrev == [ok |-> FALSE, created |-> FALSE]

\* main is not running
MainIdle ==
  /\ mpc = "idle"
  /\ run = 0
  /\ params = NoParams
  /\ p_id = None
  /\ disks = <<>>
  /\ attachments = {}
  /\ disk = NoId
  /\ ret = NoRet
  /\ is_new_disk = FALSE
  /\ ops = <<>>
  /\ mresult = NoResult
  /\ closed = <<>>
  /\ prev = NoPrev

\* update_storage_domains is not running
StorageIdle ==
  /\ spc = "idle"
  /\ rdisk = NoDisk
  /\ sd_disk = NoDisk
  /\ p_storage_domain = None
  /\ p_storage_domains = <<>>
  /\ changed = FALSE
  /\ sd_i = 0
  /\ sactions = <<>>
  /\ sresult = NoError

(***************************************************************************)
(* upload_disk_image                                                       *)
(***************************************************************************)
\* module.params['auth'] as lines 252-257 read it
NoAuth == [insecure |-> FALSE, ca_file |-> None]
AuthSpace == [insecure : BOOLEAN, ca_file : {None, Some("/etc/pki/ca.crt")}]

\* line 251: ssl.create_default_context(); cafile is the file loaded into the
\* trust store by load_verify_locations, None when none was loaded
NoContext == [check_hostname |-> FALSE, verify_mode |-> "none", cafile |-> None]
DefaultContext ==
  [check_hostname |-> TRUE, verify_mode |-> "CERT_REQUIRED", cafile |-> None]

\* lines 253-257: load_verify_locations is called
LoadsCaFile(a) == ~a.insecure /\ a.ca_file # None

\* lines 250-257: the context of the proxy connection
TlsContext(a) ==
  IF a.insecure
    THEN [DefaultContext EXCEPT !.check_hostname = FALSE, !.verify_mode = "CERT_NONE"]
    ELSE IF a.ca_file # None
           THEN [DefaultContext EXCEPT !.cafile = Some("ca.pem")]
           ELSE DefaultContext

UploadEntry ==
  /\ upc = "add"
  /\ pos = 0
  /\ transfer = "none"
  /\ session = "none"
  /\ puts = <<>>
  /\ extends = 0
  /\ finalizes = 0
  /\ pending = NoError
  /\ uresult = NoError
  /\ waited = 0
  /\ lun_status \in {"locked", "ok"}
  /\ context = NoContext

InitUpload ==
  /\ UploadEntry
  /\ size \in FileSizes
  /\ timeout \in 1..MaxTimeout
  /\ upload_lun \in BOOLEAN
  /\ auth \in AuthSpace
  /\ StorageIdle
  /\ MainIdle

\* an exception raised inside the try block (lines 238-280): control goes to
\* the finally block with the exception in flight
RaiseInTry_SkipFinally(e) ==
  /\ pending' = e
  /\ upc' = "return"
RaiseInTry(e) ==
  /\ pending' = e
  /\ upc' = "finalize"

\* an exception raised inside the finally block (lines 281-305) replaces the
\* one in flight and leaves upload_disk_image
RaiseInFinally(e) ==
  /\ pending' = e
  /\ uresult' = e
  /\ upc' = "done"

\* lines 229-236: transfers_service.add(...)
AddTransfer ==
  /\ upc = "add"
  /\ session' = "INITIALIZING"
  /\ transfer' = "INITIALIZING"
  /\ upc' = "init_poll"
  /\ UNCHANGED <<size, pos, puts, extends, finalizes, pending, uresult, waited,
                 timeout, upload_lun, lun_status>>
  /\ UNCHANGED <<not_uvars, auth, context>>

\* lines 229-235: the add call fails; it is outside the try block
AddTransferFails ==
  /\ upc = "add"
  /\ uresult' = RemoteOperationError
  /\ upc' = "done"
  /\ UNCHANGED <<size, pos, transfer, session, puts, extends, finalizes, pending,
                 waited, timeout, upload_lun, lun_status>>
  /\ UNCHANGED <<not_uvars, auth, context>>

\* lines 241-243: one round of the init poll
InitPoll ==
  /\ upc = "init_poll"
  /\ transfer = "INITIALIZING"
  /\ waited' = Tick(waited)
  /\ \E p \in PhaseAfter(session, finalizes > 0) :
       /\ session' = p
       /\ transfer' = p
  /\ UNCHANGED <<upc, size, pos, puts, extends, finalizes, pending, uresult,
                 timeout, upload_lun, lun_status>>
  /\ UNCHANGED <<not_uvars, auth, context>>

\* line 243: transfer_service.get() fails
InitPollFails ==
  /\ upc = "init_poll"
  /\ transfer = "INITIALIZING"
  /\ waited' = Tick(waited)
  /\ RaiseInTry(RemoteOperationError)
  /\ UNCHANGED <<size, pos, transfer, session, puts, extends, finalizes, uresult,
                 timeout, upload_lun, lun_status>>
  /\ UNCHANGED <<not_uvars, auth, context>>

\* lines 241, 245-265: the init poll is over; headers, TLS context, connection
\* and the image file are set up, pos = 0
InitDone ==
  /\ upc = "init_poll"
  /\ transfer # "INITIALIZING"
  /\ context' = TlsContext(auth)
  /\ pos' = 0
  /\ upc' = "loop"
  /\ UNCHANGED <<size, transfer, session, puts, extends, finalizes, pending,
                 uresult, waited, timeout, upload_lun, lun_status>>
  /\ UNCHANGED <<not_uvars, auth>>

\* line 257: load_verify_locations cannot read the file it is given
LoadCaFails ==
  /\ upc = "init_poll"
  /\ transfer # "INITIALIZING"
  /\ LoadsCaFile(auth)
  /\ RaiseInTry(TransportError)
  /\ UNCHANGED <<size, pos, transfer, session, puts, extends, finalizes, uresult,
                 waited, timeout, upload_lun, lun_status>>
  /\ UNCHANGED <<not_uvars, auth, context>>

\* line 268: while pos < size
LoopEnter ==
  /\ upc = "loop"
  /\ pos < size
  /\ upc' = "extend"
  /\ UNCHANGED <<size, pos, transfer, session, puts, extends, finalizes, pending,
                 uresult, waited, timeout, upload_lun, lun_status>>
  /\ UNCHANGED <<not_uvars, auth, context>>

\* line 268: the loop ends, the try block is left normally
LoopExit ==
  /\ upc = "loop"
  /\ ~(pos < size)
  /\ upc' = "finalize"
  /\ UNCHANGED <<size, pos, transfer, session, puts, extends, finalizes, pending,
                 uresult, waited, timeout, upload_lun, lun_status>>
  /\ UNCHANGED <<not_uvars, auth, context>>

\* line 269: transfer_service.extend()
Extend_NoCall ==
  /\ upc = "extend"
  /\ upc' = "put"
  /\ UNCHANGED <<size, pos, transfer, session, puts, extends, finalizes, pending,
                 uresult, waited, timeout, upload_lun, lun_status>>
  /\ UNCHANGED <<not_uvars, auth, context>>
Extend ==
  /\ upc = "extend"
  /\ extends' = extends + 1
  /\ upc' = "put"
  /\ UNCHANGED <<size, pos, transfer, session, puts, finalizes, pending, uresult,
                 waited, timeout, upload_lun, lun_status>>
  /\ UNCHANGED <<not_uvars, auth, context>>

\* line 269: the extend call fails
ExtendFails ==
  /\ upc = "extend"
  /\ extends' = extends + 1
  /\ RaiseInTry(RemoteOperationError)
  /\ UNCHANGED <<size, pos, transfer, session, puts, finalizes, uresult, waited,
                 timeout, upload_lun, lun_status>>
  /\ UNCHANGED <<not_uvars, auth, context>>

\* lines 270-280: PUT of one chunk, answered
PutChunk ==
  /\ upc = "put"
  /\ \E status \in Statuses :
       /\ puts' = Append(puts, <<ContentRange(pos, size), status>>)
       /\ IF ChunkFailed(status)
            THEN /\ RaiseInTry(TransferChunkError)
                 /\ pos' = pos
            ELSE /\ pos' = pos + chunk_size
                 /\ upc' = "loop"
                 /\ pending' = pending
  /\ UNCHANGED <<size, transfer, session, extends, finalizes, uresult, waited,
                 timeout, upload_lun, lun_status>>
  /\ UNCHANGED <<not_uvars, auth, context>>

\* lines 271-277: the request is sent and the connection breaks before an answer
PutFails ==
  /\ upc = "put"
  /\ puts' = Append(puts, <<ContentRange(pos, size), 0>>)
  /\ RaiseInTry(TransportError)
  /\ UNCHANGED <<size, pos, transfer, session, extends, finalizes, uresult, waited,
                 timeout, upload_lun, lun_status>>
  /\ UNCHANGED <<not_uvars, auth, context>>

\* line 282: transfer_service.finalize()
Finalize ==
  /\ upc = "finalize"
  /\ finalizes' = finalizes + 1
  /\ waited' = 0
  /\ upc' = "fin_poll"
  /\ UNCHANGED <<size, pos, transfer, session, puts, extends, pending, uresult,
                 timeout, upload_lun, lun_status>>
  /\ UNCHANGED <<not_uvars, auth, context>>

\* line 282: the finalize call fails
FinalizeFails ==
  /\ upc = "finalize"
  /\ finalizes' = finalizes + 1
  /\ RaiseInFinally(RemoteOperationError)
  /\ UNCHANGED <<size, pos, transfer, session, puts, extends, waited, timeout,
                 upload_lun, lun_status>>
  /\ UNCHANGED <<not_uvars, auth, context>>

\* lines 283-288: one round of the finalize poll
FinalizePoll ==
  /\ upc = "fin_poll"
  /\ transfer \in FinalizeWaitPhases
  /\ waited' = Tick(waited)
  /\ \E p \in PhaseAfter(session, finalizes > 0) :
       /\ session' = p
       /\ transfer' = p
  /\ UNCHANGED <<upc, size, pos, puts, extends, finalizes, pending, uresult,
                 timeout, upload_lun, lun_status>>
  /\ UNCHANGED <<not_uvars, auth, context>>

\* line 288: transfer_service.get() fails
FinalizePollFails ==
  /\ upc = "fin_poll"
  /\ transfer \in FinalizeWaitPhases
  /\ waited' = Tick(waited)
  /\ RaiseInFinally(RemoteOperationError)
  /\ UNCHANGED <<size, pos, transfer, session, puts, extends, finalizes, timeout,
                 upload_lun, lun_status>>
  /\ UNCHANGED <<not_uvars, auth, context>>

\* lines 283, 289-298: the poll is over; the phase last read decides
PhaseCheck ==
  /\ upc = "fin_poll"
  /\ transfer \notin FinalizeWaitPhases
  /\ IF transfer \in FailurePhases
       THEN RaiseInFinally(TransferFailedError(transfer))
       ELSE /\ upc' = IF upload_lun THEN "lun_wait" ELSE "return"
            /\ UNCHANGED <<pending, uresult>>
  /\ waited' = 0
  /\ UNCHANGED <<size, pos, transfer, session, puts, extends, finalizes, timeout,
                 upload_lun, lun_status>>
  /\ UNCHANGED <<not_uvars, auth, context>>

\* lines 300-305: wait(condition = disk status OK): the condition holds
LunWaitOk ==
  /\ upc = "lun_wait"
  /\ lun_status = "ok"
  /\ upc' = "return"
  /\ UNCHANGED <<size, pos, transfer, session, puts, extends, finalizes, pending,
                 uresult, waited, timeout, upload_lun, lun_status>>
  /\ UNCHANGED <<not_uvars, auth, context>>

\* lines 300-305: the condition does not hold yet: sleep one poll interval
LunWaitPoll ==
  /\ upc = "lun_wait"
  /\ lun_status # "ok"
  /\ waited < timeout
  /\ waited' = Tick(waited)
  /\ lun_status' \in {"locked", "ok"}
  /\ UNCHANGED <<upc, size, pos, transfer, session, puts, extends, finalizes,
                 pending, uresult, timeout, upload_lun>>
  /\ UNCHANGED <<not_uvars, auth, context>>

\* lines 300-305: the timeout of wait() is over
LunWaitTimeout ==
  /\ upc = "lun_wait"
  /\ lun_status # "ok"
  /\ ~(waited < timeout)
  /\ RaiseInFinally(TimeoutExceeded)
  /\ UNCHANGED <<size, pos, transfer, session, puts, extends, finalizes, waited,
                 timeout, upload_lun, lun_status>>
  /\ UNCHANGED <<not_uvars, auth, context>>

\* end of the finally block: the exception in flight is raised again;
\* line 307 otherwise: return True
UploadReturn ==
  /\ upc = "return"
  /\ uresult' = IF pending # NoError THEN pending ELSE ReturnTrue
  /\ upc' = "done"
  /\ UNCHANGED <<size, pos, transfer, session, puts, extends, finalizes, pending,
                 waited, timeout, upload_lun, lun_status>>
  /\ UNCHANGED <<not_uvars, auth, context>>

NextUpload ==
  \/ AddTransfer
  \/ AddTransferFails
  \/ InitPoll
  \/ InitPollFails
  \/ InitDone
  \/ LoadCaFails
  \/ LoopEnter
  \/ LoopExit
  \/ Extend
  \/ ExtendFails
  \/ PutChunk
  \/ PutFails
  \/ Finalize
  \/ FinalizeFails
  \/ FinalizePoll
  \/ FinalizePollFails
  \/ PhaseCheck
  \/ LunWaitOk
  \/ LunWaitPoll
  \/ LunWaitTimeout
  \/ UploadReturn

SpecUpload == InitUpload /\ [][NextUpload]_vars

(***************************************************************************)
(* Claims about upload_disk_image, checked under SpecUpload                *)
(***************************************************************************)
\* the session exists: transfers_service.add returned
SessionCreated == transfer # "none"

\* ceil(size / chunk_size)
ExpectedPuts == (size + chunk_size - 1) \div chunk_size

\* the chunk loop was left normally and the finally block is running
LoopSucceeded ==
  /\ upc \in {"finalize", "fin_poll", "lun_wait", "return"}
  /\ pending = NoError

\* C1: once the transfer session was created, finalize is requested exactly
\* once on every path that leaves upload_disk_image (success, chunk answered
\* with status >= 400, error raised in the init poll, extend or PUT), and never
\* more than once.
C1_FinalizeOnEveryExit ==
  /\ finalizes <= 1
  /\ (upc = "done" /\ SessionCreated) => finalizes = 1

\* C1 witness: the upload ended on a failed second chunk and finalize was
\* requested once.
C1_Witness ==
  /\ upc = "done"
  /\ uresult = TransferChunkError
  /\ Len(puts) = 2
  /\ finalizes = 1

\* C2: a chunk answered with status >= 400 is the last request of the upload:
\* no extend and no PUT follows it (so it is not sent again), control is out of
\* the chunk loop, and when the upload has ended finalize was requested and the
\* upload did not return True.
C2_ChunkErrorAborts ==
  \A i \in 1..Len(puts) :
    puts[i][2] >= 400 =>
      /\ i = Len(puts)
      /\ extends = i
      /\ upc \in {"finalize", "fin_poll", "lun_wait", "return", "done"}
      /\ upc = "done" => (finalizes = 1 /\ uresult \notin {ReturnTrue, NoError})

\* C2 witness: chunk 0 went through, chunk 1 was answered 500 with a further
\* chunk left unsent, and the upload ended.
C2_Witness ==
  /\ upc = "done"
  /\ Len(puts) = 2
  /\ puts[2][2] = 500
  /\ size > 2 * chunk_size
  /\ finalizes = 1

\* C3: the i-th PUT (from 0) carries the range i*C .. min((i+1)*C, S) - 1 of S;
\* when every PUT was answered below 400 and the loop ended, ceil(S/C) PUTs
\* were sent, the last one ending at S - 1, and none for S = 0.
C3_ChunkRanges ==
  /\ \A i \in 1..Len(puts) :
       puts[i][1] = <<(i - 1) * chunk_size, Min(i * chunk_size, size) - 1, size>>
  /\ Len(puts) <= ExpectedPuts
  /\ LoopSucceeded =>
       /\ Len(puts) = ExpectedPuts
       /\ \A i \in 1..Len(puts) : puts[i][2] < 400
       /\ size > 0 => puts[Len(puts)][1][2] = size - 1
       /\ size = 0 => puts = <<>>

\* C3 witness: a file of two chunks and one byte was uploaded in three PUTs.
C3_Witness ==
  /\ uresult = ReturnTrue
  /\ size = 2 * chunk_size + 1
  /\ Len(puts) = 3

\* C4: when the finalize poll is over (finalize was requested, the phase last
\* read is outside TRANSFERRING / FINALIZING_SUCCESS) and that phase is UNKNOWN,
\* FINISHED_FAILURE, FINALIZING_FAILURE or CANCELLED, the upload ends at once
\* with TransferFailedError carrying that phase, whatever was in flight from the
\* chunk loop.
C4_TerminalFailurePhase ==
  [][(/\ upc = "fin_poll"
      /\ transfer \in {"UNKNOWN", "FINISHED_FAILURE", "FINALIZING_FAILURE", "CANCELLED"})
       => (/\ upc' = "done"
           /\ uresult' = Err("TransferFailedError", PhaseStr(transfer))
           /\ transfer' = transfer)]_vars

\* C4 witness: a chunk failed, and the upload ended with TransferFailedError
\* carrying "cancelled".
C4_Witness ==
  /\ upc = "done"
  /\ transfer = "CANCELLED"
  /\ uresult = Err("TransferFailedError", "cancelled")
  /\ Len(puts) > 0
  /\ puts[Len(puts)][2] >= 400

\* C5: no poll loop of the upload (init wait, finalize wait, LUN status wait)
\* sleeps longer than the caller's timeout.
C5_PollLoopsBounded ==
  upc \in {"init_poll", "fin_poll", "lun_wait"} => waited <= timeout

(***************************************************************************)
(* DisksModule.update_storage_domains (lines 348-384)                      *)
(***************************************************************************)
\* upload_disk_image is not running
UploadIdle ==
  /\ upc = "idle"
  /\ size = 0
  /\ pos = 0
  /\ transfer = "none"
  /\ session = "none"
  /\ puts = <<>>
  /\ extends = 0
  /\ finalizes = 0
  /\ pending = NoError
  /\ uresult = NoError
  /\ upload_lun = FALSE
  /\ lun_status = "ok"
  /\ auth = NoAuth
  /\ context = NoContext

\* the storage domains of the management service, by name
StorageDomainNames == {"sd1", "sd2"}
\* the names a caller may give: the last one names no storage domain
DeclaredDomainNames == StorageDomainNames \cup {"ghost"}

\* search_by_name(sds_service, name): the id of the storage domain so named,
\* NotFound when there is none
NotFound == "not-found"
search_by_name_id(name) ==
  CASE name = "sd1" -> "id-1"
    [] name = "sd2" -> "id-2"
    [] OTHER -> NotFound

SeqsUpTo(S, n) == UNION {[1..k -> S] : k \in 0..n}

\* line 364: action_condition of the move
MoveNeeded_Always(new_id, d) == TRUE
MoveNeeded(new_id, d) == new_id # d.sd

\* line 375: changed = changed or self.action(...)['changed']: the action is
\* called only when changed is still False
CopyCalled(c) == ~c

Returned == Err("returned", "-")

InitStorage ==
  /\ UploadIdle
  /\ MainIdle
  /\ waited = 0
  /\ timeout \in 1..MaxTimeout
  /\ spc = "get"
  /\ rdisk \in [type : {"image", "lun"}, sd : {"id-1", "id-2"},
                status : {"ok", "locked"}]
  /\ sd_disk = NoDisk
  /\ p_storage_domain \in {None} \cup {Some(n) : n \in DeclaredDomainNames}
  /\ p_storage_domains \in SeqsUpTo(DeclaredDomainNames, MaxDomains)
  /\ changed = FALSE
  /\ sd_i = 0
  /\ sactions = <<>>
  /\ sresult = NoError

\* an exception leaves update_storage_domains
StorageRaise(e) ==
  /\ sresult' = e
  /\ spc' = "done"

\* lines 349-356: the disk is not image-backed: return changed
GetDiskNotImage ==
  /\ spc = "get"
  /\ rdisk.type # "image"
  /\ sd_disk' = rdisk
  /\ changed' = FALSE
  /\ sresult' = Returned
  /\ spc' = "done"
  /\ UNCHANGED <<rdisk, p_storage_domain, p_storage_domains, sd_i, sactions>>
  /\ UNCHANGED <<mvars, uonly, waited, timeout>>

\* lines 349-356: the disk is image-backed
GetDiskImage ==
  /\ spc = "get"
  /\ rdisk.type = "image"
  /\ sd_disk' = rdisk
  /\ changed' = FALSE
  /\ spc' = "move"
  /\ UNCHANGED <<rdisk, p_storage_domain, p_storage_domains, sd_i, sactions, sresult>>
  /\ UNCHANGED <<mvars, uonly, waited, timeout>>

\* line 359: no storage_domain given
MoveNotDeclared ==
  /\ spc = "move"
  /\ p_storage_domain = None
  /\ sd_i' = 1
  /\ spc' = "copy"
  /\ UNCHANGED <<rdisk, sd_disk, p_storage_domain, p_storage_domains, changed,
                 sactions, sresult>>
  /\ UNCHANGED <<mvars, uonly, waited, timeout>>

\* lines 360-367: the name resolves to no storage domain
MoveDomainNotFound ==
  /\ spc = "move"
  /\ p_storage_domain # None
  /\ search_by_name_id(Val(p_storage_domain)) = NotFound
  /\ StorageRaise(ReferenceNotFoundError)
  /\ UNCHANGED <<rdisk, sd_disk, p_storage_domain, p_storage_domains, changed, sd_i,
                 sactions>>
  /\ UNCHANGED <<mvars, uonly, waited, timeout>>

\* lines 360-370: self.action('move'): the action is sent when its condition
\* holds; then the wait for the disk status starts
MoveAction ==
  /\ spc = "move"
  /\ p_storage_domain # None
  /\ search_by_name_id(Val(p_storage_domain)) # NotFound
  /\ LET new_id == search_by_name_id(Val(p_storage_domain))
     IN  IF MoveNeeded(new_id, sd_disk)
           THEN /\ sactions' = Append(sactions, <<"move", new_id>>)
                /\ rdisk' = [rdisk EXCEPT !.sd = new_id, !.status = "locked"]
                /\ changed' = TRUE
           ELSE /\ changed' = FALSE
                /\ UNCHANGED <<sactions, rdisk>>
  /\ waited' = 0
  /\ spc' = "move_wait"
  /\ UNCHANGED <<sd_disk, p_storage_domain, p_storage_domains, sd_i, sresult>>
  /\ UNCHANGED <<mvars, uonly, timeout>>

\* lines 361-370: the management service rejects the move
MoveActionFails ==
  /\ spc = "move"
  /\ p_storage_domain # None
  /\ search_by_name_id(Val(p_storage_domain)) # NotFound
  /\ MoveNeeded(search_by_name_id(Val(p_storage_domain)), sd_disk)
  /\ sactions' = Append(sactions, <<"move", search_by_name_id(Val(p_storage_domain))>>)
  /\ StorageRaise(RemoteOperationError)
  /\ UNCHANGED <<rdisk, sd_disk, p_storage_domain, p_storage_domains, changed, sd_i>>
  /\ UNCHANGED <<mvars, uonly, waited, timeout>>

\* wait_condition of lines 365 and 378: the disk status is OK
WaitOk ==
  /\ spc \in {"move_wait", "copy_wait"}
  /\ rdisk.status = "ok"
  /\ sd_i' = sd_i + 1
  /\ spc' = "copy"
  /\ UNCHANGED <<rdisk, sd_disk, p_storage_domain, p_storage_domains, changed,
                 sactions, sresult>>
  /\ UNCHANGED <<mvars, uonly, waited, timeout>>

\* the status is not OK yet: sleep one poll interval
WaitPoll ==
  /\ spc \in {"move_wait", "copy_wait"}
  /\ rdisk.status # "ok"
  /\ waited < timeout
  /\ waited' = Tick(waited)
  /\ \E st \in {"locked", "ok"} : rdisk' = [rdisk EXCEPT !.status = st]
  /\ UNCHANGED <<spc, sd_disk, p_storage_domain, p_storage_domains, changed, sd_i,
                 sactions, sresult>>
  /\ UNCHANGED <<mvars, uonly, timeout>>

\* the timeout of the wait is over
WaitTimeout ==
  /\ spc \in {"move_wait", "copy_wait"}
  /\ rdisk.status # "ok"
  /\ ~(waited < timeout)
  /\ StorageRaise(TimeoutExceeded)
  /\ UNCHANGED <<rdisk, sd_disk, p_storage_domain, p_storage_domains, changed, sd_i,
                 sactions>>
  /\ UNCHANGED <<mvars, uonly, waited, timeout>>

\* lines 372-373, 384: the for loop is over (or storage_domains is empty)
CopyLoopExit ==
  /\ spc = "copy"
  /\ sd_i > Len(p_storage_domains)
  /\ sresult' = Returned
  /\ spc' = "done"
  /\ UNCHANGED <<rdisk, sd_disk, p_storage_domain, p_storage_domains, changed, sd_i,
                 sactions>>
  /\ UNCHANGED <<mvars, uonly, waited, timeout>>

\* lines 374-382: changed is True already: "changed or ..." does not evaluate
\* its right side, self.action is not called
CopyNotCalled ==
  /\ spc = "copy"
  /\ sd_i <= Len(p_storage_domains)
  /\ ~CopyCalled(changed)
  /\ sd_i' = sd_i + 1
  /\ UNCHANGED <<spc, rdisk, sd_disk, p_storage_domain, p_storage_domains, changed,
                 sactions, sresult>>
  /\ UNCHANGED <<mvars, uonly, waited, timeout>>

\* lines 374-380: the name resolves to no storage domain
CopyDomainNotFound ==
  /\ spc = "copy"
  /\ sd_i <= Len(p_storage_domains)
  /\ CopyCalled(changed)
  /\ search_by_name_id(p_storage_domains[sd_i]) = NotFound
  /\ StorageRaise(ReferenceNotFoundError)
  /\ UNCHANGED <<rdisk, sd_disk, p_storage_domain, p_storage_domains, changed, sd_i,
                 sactions>>
  /\ UNCHANGED <<mvars, uonly, waited, timeout>>

\* lines 374-382: self.action('copy'): the copy is sent (no action_condition),
\* then the wait for the disk status starts
CopyAction ==
  /\ spc = "copy"
  /\ sd_i <= Len(p_storage_domains)
  /\ CopyCalled(changed)
  /\ search_by_name_id(p_storage_domains[sd_i]) # NotFound
  /\ sactions' = Append(sactions, <<"copy", search_by_name_id(p_storage_domains[sd_i])>>)
  /\ rdisk' = [rdisk EXCEPT !.status = "locked"]
  /\ changed' = TRUE
  /\ waited' = 0
  /\ spc' = "copy_wait"
  /\ UNCHANGED <<sd_disk, p_storage_domain, p_storage_domains, sd_i, sresult>>
  /\ UNCHANGED <<mvars, uonly, timeout>>

\* lines 375-382: the management service rejects the copy
CopyActionFails ==
  /\ spc = "copy"
  /\ sd_i <= Len(p_storage_domains)
  /\ CopyCalled(changed)
  /\ search_by_name_id(p_storage_domains[sd_i]) # NotFound
  /\ sactions' = Append(sactions, <<"copy", search_by_name_id(p_storage_domains[sd_i])>>)
  /\ StorageRaise(RemoteOperationError)
  /\ UNCHANGED <<rdisk, sd_disk, p_storage_domain, p_storage_domains, changed, sd_i>>
  /\ UNCHANGED <<mvars, uonly, waited, timeout>>

NextStorage ==
  \/ GetDiskNotImage
  \/ GetDiskImage
  \/ MoveNotDeclared
  \/ MoveDomainNotFound
  \/ MoveAction
  \/ MoveActionFails
  \/ WaitOk
  \/ WaitPoll
  \/ WaitTimeout
  \/ CopyLoopExit
  \/ CopyNotCalled
  \/ CopyDomainNotFound
  \/ CopyAction
  \/ CopyActionFails

SpecStorage == InitStorage /\ [][NextStorage]_vars

(***************************************************************************)
(* Claims about update_storage_domains, checked under SpecStorage          *)
(***************************************************************************)
\* the copy actions sent so far
CopiesSent == SelectSeq(sactions, LAMBDA a : a[1] = "copy")
MovesSent == SelectSeq(sactions, LAMBDA a : a[1] = "move")

\* update_storage_domains returned (no exception) for an image-backed disk
StorageReturned ==
  /\ spc = "done"
  /\ sresult = Returned
  /\ sd_disk.type = "image"

\* C6: for an image-backed disk, a call of update_storage_domains with N >= 1
\* names in storage_domains that returns has sent exactly N copy actions, the
\* i-th to the i-th declared domain, whether or not a move was sent before.
C6_OneCopyPerDomain ==
  (StorageReturned /\ Len(p_storage_domains) >= 1) =>
    CopiesSent = [i \in 1..Len(p_storage_domains) |->
                    <<"copy", search_by_name_id(p_storage_domains[i])>>]

\* C7: image-backed disk, a single storage_domain that names an existing
\* domain, no storage_domains list.  If the domain is the disk's current
\* primary domain no action is ever sent and the call returns changed = False;
\* otherwise at most one move, to the declared domain, is sent, and the call
\* returns only with that one move sent, the disk status OK and changed = True.
C7_MoveOnlyWhenDomainDiffers ==
  (/\ sd_disk.type = "image"
   /\ p_storage_domains = <<>>
   /\ p_storage_domain # None
   /\ search_by_name_id(Val(p_storage_domain)) # NotFound) =>
     IF search_by_name_id(Val(p_storage_domain)) = sd_disk.sd
       THEN /\ sactions = <<>>
            /\ StorageReturned => ~changed
       ELSE /\ sactions \in {<<>>, << <<"move", search_by_name_id(Val(p_storage_domain))>> >>}
            /\ StorageReturned =>
                 /\ sactions = << <<"move", search_by_name_id(Val(p_storage_domain))>> >>
                 /\ rdisk.status = "ok"
                 /\ rdisk.sd = search_by_name_id(Val(p_storage_domain))
                 /\ changed

\* C7 witness: a move to another domain was sent, the wait slept at least one
\* poll interval and the call returned.
C7_Witness ==
  /\ StorageReturned
  /\ p_storage_domains = <<>>
  /\ p_storage_domain = Some("sd2")
  /\ sd_disk.sd = "id-1"
  /\ MovesSent = << <<"move", "id-2">> >>
  /\ waited >= 1
  /\ changed

(***************************************************************************)
(* main, DisksModule, DiskAttachmentsModule (lines 310-516): data          *)
(***************************************************************************)
\* at most MaxDeclared of the optional parameters are given in one declaration
MaxDeclared == 3
\* the module is invoked up to MaxRuns times in a row with one declaration
MaxRuns == 2

\* convert_to_bytes: "<n>KiB", "<n>MiB", "<n>GiB" to a number of bytes; None
\* stays None
UnitBytes(u) ==
  CASE u = "KiB" -> 1024
    [] u = "MiB" -> 1024 * 1024
    [] u = "GiB" -> 1024 * 1024 * 1024
convert_to_bytes(o) ==
  IF o = None THEN None ELSE Some(Val(o).n * UnitBytes(Val(o).unit))

\* equal(param, value): a parameter that is not given matches any value
equal(a, b) == a = None \/ Val(a) = b

\* otypes.DiskInterface(s) and str(interface)
DiskInterface(str) ==
  CASE str = "virtio" -> "VIRTIO"
    [] str = "ide" -> "IDE"
str_interface(i) ==
  CASE i = "VIRTIO" -> "virtio"
    [] i = "IDE" -> "ide"

\* the id of the disk the management service creates for a LUN
LunDiskId(lun_id) ==
  CASE lun_id = "A" -> "lun-A"
    [] lun_id = "B" -> "lun-B"

\* the sizes a declaration may name
DeclaredSizes ==
  {[n |-> 1024, unit |-> "KiB"], [n |-> 2, unit |-> "MiB"], [n |-> 1, unit |-> "GiB"]}

\* the optional parameters that are given in p
DeclaredOptions(p) ==
  (IF p.vm_id # None \/ p.vm_name # None THEN {"vm"} ELSE {})
    \cup (IF p.size # None THEN {"size"} ELSE {})
    \cup (IF p.description # None THEN {"description"} ELSE {})
    \cup (IF p.shareable # None THEN {"shareable"} ELSE {})
    \cup (IF p.format # "cow" THEN {"format"} ELSE {})
    \cup (IF p.interface # None THEN {"interface"} ELSE {})
    \cup (IF p.bootable # None THEN {"bootable"} ELSE {})
    \cup (IF p.storage_domain # None THEN {"storage_domain"} ELSE {})
    \cup (IF p.storage_domains # <<>> THEN {"storage_domains"} ELSE {})
    \cup (IF p.image_path # None THEN {"image_path"} ELSE {})
    \cup (IF p.force THEN {"force"} ELSE {})
    \cup (IF p.logical_unit # None THEN {"logical_unit"} ELSE {})

\* argument_spec of lines 415-435: the declarations tried.  A disk is named
\* "d1" unless it is declared by its logical unit.
ParamSpace ==
  {p \in [state : {"present", "absent", "attached", "detached"},
          vm_id : {None, Some("vm-1")},
          vm_name : {None, Some("vm1"), Some("ghost")},
          name : {None, Some("d1")},
          size : {None} \cup {Some(z) : z \in DeclaredSizes},
          description : {None, Some("a")},
          shareable : {None, Some(TRUE)},
          format : {"cow", "raw"},
          interface : {None, Some("virtio")},
          bootable : {None, Some(TRUE)},
          storage_domain : {None, Some("sd2")},
          storage_domains : {<<>>, <<"sd2">>},
          image_path : {None, Some("/image")},
          force : BOOLEAN,
          logical_unit : {None, Some("A")}] :
     /\ ~(p.vm_id # None /\ p.vm_name # None)
     /\ (p.name = None) <=> (p.logical_unit # None)
     /\ Cardinality(DeclaredOptions(p)) <= MaxDeclared}

\* a disk of the management service
ImageDisk(desc, bytes) ==
  [id |-> "disk-1", name |-> Some("d1"), type |-> "image", lun_storage_id |-> "-",
   description |-> desc, provisioned_size |-> bytes, shareable |-> FALSE,
   format |-> "cow", sparse |-> TRUE, sd |-> "id-1", status |-> "ok"]
LunDisk(lun_id) ==
  [id |-> LunDiskId(lun_id), name |-> None, type |-> "lun", lun_storage_id |-> lun_id,
   description |-> "", provisioned_size |-> 0, shareable |-> FALSE,
   format |-> "raw", sparse |-> FALSE, sd |-> "-", status |-> "ok"]

\* an attachment of a disk to the VM
Attachment(disk_id, interface, bootable) ==
  [disk |-> disk_id, interface |-> interface, bootable |-> bootable]

\* the disks and attachments the management service may hold at first
ExistingDisks ==
  {<<>>, <<LunDisk("A")>>, <<LunDisk("B")>>}
    \cup {<<ImageDisk(d, z)>> : d \in {"", "a"}, z \in {1024 * 1024, 2 * 1024 * 1024}}
ExistingAttachments(ds) ==
  {{}} \cup UNION {{{Attachment(ds[i].id, "VIRTIO", FALSE)},
                    {Attachment(ds[i].id, "IDE", TRUE)}} : i \in 1..Len(ds)}

\* the disk with the given id
DiskOf(ds, id) == ds[CHOOSE i \in 1..Len(ds) : ds[i].id = id]
HasDisk(ds, id) == \E i \in 1..Len(ds) : ds[i].id = id

\* lines 214-223
_search_by_lun_Any(ds, lun_id) ==
  LET res == SelectSeq(ds, LAMBDA d : d.type = "lun")
  IN  IF res # <<>> THEN res[1].id ELSE NoId
_search_by_lun(ds, lun_id) ==
  LET res == SelectSeq(ds, LAMBDA d : d.type = "lun" /\ d.lun_storage_id = lun_id)
  IN  IF res # <<>> THEN res[1].id ELSE NoId

\* BaseModule.search_entity: by id when module.params['id'] is set, else by name
search_entity(ds, pid, name) ==
  IF pid # None
    THEN IF HasDisk(ds, Val(pid)) THEN Val(pid) ELSE NoId
    ELSE IF name # None
           THEN LET res == SelectSeq(ds, LAMBDA d : d.name = name)
                IN  IF res # <<>> THEN res[1].id ELSE NoId
           ELSE NoId

\* lines 312-346: DisksModule.build_entity
build_entity_SparseRaw(p, pid) ==
  [id |-> pid,
   name |-> p.name,
   description |-> p.description,
   format |-> p.format,
   sparse |-> p.format = "raw",
   provisioned_size |-> convert_to_bytes(p.size),
   storage_domain |-> p.storage_domain,
   shareable |-> p.shareable,
   lun_storage |-> p.logical_unit]
build_entity(p, pid) ==
  [id |-> pid,
   name |-> p.name,
   description |-> p.description,
   format |-> p.format,
   sparse |-> p.format # "raw",
   provisioned_size |-> convert_to_bytes(p.size),
   storage_domain |-> p.storage_domain,
   shareable |-> p.shareable,
   lun_storage |-> p.logical_unit]

\* lines 396-404: DiskAttachmentsModule.build_entity
attachment_build_entity(p, pid) ==
  [disk |-> build_entity(p, pid),
   interface |-> IF p.interface # None THEN Some(DiskInterface(Val(p.interface)))
                                        ELSE None,
   bootable |-> p.bootable,
   active |-> TRUE]

\* lines 386-391: DisksModule._update_check
_update_check_NoShareable(p, entity) ==
  /\ equal(p.description, entity.description)
  /\ equal(convert_to_bytes(p.size), entity.provisioned_size)
_update_check(p, entity) ==
  /\ equal(p.description, entity.description)
  /\ equal(convert_to_bytes(p.size), entity.provisioned_size)
  /\ equal(p.shareable, entity.shareable)

\* lines 406-411: DiskAttachmentsModule.update_check; d is the disk that
\* follow_link(entity.disk) fetches
update_check_NoStr(p, entity, d) ==
  /\ _update_check(p, d)
  /\ equal(p.interface, entity.interface)
  /\ equal(p.bootable, entity.bootable)
update_check(p, entity, d) ==
  /\ _update_check(p, d)
  /\ equal(p.interface, str_interface(entity.interface))
  /\ equal(p.bootable, entity.bootable)

\* the disk the management service creates from a Disk entity
AddedDisk(e) ==
  [id |-> IF e.lun_storage # None THEN LunDiskId(Val(e.lun_storage)) ELSE "disk-1",
   name |-> e.name,
   type |-> IF e.lun_storage # None THEN "lun" ELSE "image",
   lun_storage_id |-> IF e.lun_storage # None THEN Val(e.lun_storage) ELSE "-",
   description |-> IF e.description # None THEN Val(e.description) ELSE "",
   provisioned_size |-> IF e.provisioned_size # None THEN Val(e.provisioned_size) ELSE 0,
   shareable |-> IF e.shareable # None THEN Val(e.shareable) ELSE FALSE,
   format |-> e.format,
   sparse |-> e.sparse,
   sd |-> IF e.lun_storage # None THEN "-"
          ELSE IF e.storage_domain # None
                 THEN search_by_name_id(Val(e.storage_domain)) ELSE "id-1",
   status |-> "ok"]

\* the disk d after the management service applied an update with entity e
\* (the format of a disk cannot be changed)
UpdatedDisk(d, e) ==
  [d EXCEPT
     !.description = IF e.description # None THEN Val(e.description) ELSE @,
     !.provisioned_size = IF e.provisioned_size # None THEN Val(e.provisioned_size) ELSE @,
     !.shareable = IF e.shareable # None THEN Val(e.shareable) ELSE @]

\* the management service refuses to shrink a disk
Shrinks(d, e) ==
  e.provisioned_size # None /\ Val(e.provisioned_size) < d.provisioned_size

\* ds with the disk of d's id replaced by d
ReplaceDisk(ds, d) == [i \in 1..Len(ds) |-> IF ds[i].id = d.id THEN d ELSE ds[i]]

\* a request sent to the management service: size is the provisioned size it
\* carries, live the provisioned size of the disk it is about (-1: none)
Op(name, sz, live) == [op |-> name, size |-> sz, live |-> live]
SizeOf(o) == IF o = None THEN -1 ELSE Val(o)

\* lines 372-382 on the list sds, with changed = c before it
RECURSIVE CopyActions(_, _)
CopyActions(sds, c) ==
  IF sds = <<>> THEN <<>>
  ELSE IF CopyCalled(c)
         THEN <<Op("disk.copy", -1, -1)>> \o CopyActions(Tail(sds), TRUE)
         ELSE CopyActions(Tail(sds), c)

\* lines 348-384: the actions update_storage_domains sends for the disk d
MoveSent(p, d) ==
  /\ d.type = "image"
  /\ p.storage_domain # None
  /\ MoveNeeded(search_by_name_id(Val(p.storage_domain)), d)
PlacementActions(p, d) ==
  IF d.type # "image" THEN <<>>
  ELSE (IF MoveSent(p, d) THEN <<Op("disk.move", -1, -1)>> ELSE <<>>)
         \o CopyActions(p.storage_domains, MoveSent(p, d))

(***************************************************************************)
(* main (lines 414-516): one action per step of the orchestration          *)
(***************************************************************************)
InitMain ==
  /\ UploadIdle
  /\ StorageIdle
  /\ waited = 0
  /\ timeout = 1
  /\ mpc = "lun_lookup"
  /\ run = 1
  /\ params \in ParamSpace
  /\ p_id = None
  /\ disks \in ExistingDisks
  /\ attachments \in ExistingAttachments(disks)
  /\ disk = NoId
  /\ ret = NoRet
  /\ is_new_disk = FALSE
  /\ ops = <<>>
  /\ mresult = NoResult
  /\ closed = <<>>
  /\ prev = NoPrev

\* lines 513-514: an exception reaches main, or main calls fail_json itself
MainFail_NoClose(e) ==
  /\ mresult' = [failed |-> TRUE, changed |-> FALSE, error |-> e]
  /\ mpc' = "closed"
MainFail(e) ==
  /\ mresult' = [failed |-> TRUE, changed |-> FALSE, error |-> e]
  /\ mpc' = "close"

\* BaseModule.create, for an entity that exists: the update is sent when the
\* reconciler's equality check fails; the Disk Reconciler's check is
\* _update_check
DiskUpdateNeeded(p, d) == ~_update_check(p, d)

\* the entity disks_module.create works on: the disk found by LUN id, else
\* the one search_entity finds
CreateTarget == IF disk # NoId THEN disk ELSE search_entity(disks, p_id, params.name)

\* line 472: the upload runs
UploadWanted_Always(p, new) == p.image_path # None
UploadWanted(p, new) == p.image_path # None /\ (new \/ p.force)

\* line 479: the VM part of main runs
VmGate(p) == p.vm_id # None \/ (p.vm_name # None /\ p.state # "absent")

\* search_by_name(vms_service, name): the id of the VM so named
vm_search_by_name_id_Any(name) == "vm-1"
vm_search_by_name_id(name) == IF name = "vm1" THEN "vm-1" ELSE NotFound

\* the attachment of the disk module.params['id'] names, if any
AttachmentsOf(pid) == {a \in attachments : pid # None /\ a.disk = Val(pid)}

\* lines 461-479: the step of main that follows a step, in the order of the
\* statements
NextStep_UploadLast(step) ==
  CASE step = "create" -> "placement"
    [] step = "placement" -> "vm"
    [] step = "remove" -> "vm"
    [] step = "attach" -> "upload"
    [] step = "upload" -> "exit"
NextStep(step) ==
  CASE step = "create" -> "placement"
    [] step = "placement" -> "upload"
    [] step = "upload" -> "vm"
    [] step = "remove" -> "vm"
    [] step = "attach" -> "exit"

\* lines 460 and 475: the branch of main the declared state selects
StateBranch_AlwaysCreate(p) == "create"
StateBranch(p) == IF p.state = "absent" THEN "remove" ELSE "create"

\* lines 454-456
LunLookup ==
  /\ mpc = "lun_lookup"
  /\ IF params.logical_unit # None
       THEN /\ disk' = _search_by_lun(disks, Val(params.logical_unit))
            /\ ops' = Append(ops, Op("disks.list", -1, -1))
       ELSE /\ disk' = NoId
            /\ ops' = ops
  /\ mpc' = StateBranch(params)
  /\ UNCHANGED <<run, params, p_id, disks, attachments, ret, is_new_disk, mresult,
                 closed, prev>>
  /\ UNCHANGED <<uvars, svars>>

\* lines 460-465: disks_module.create: add the disk when there is none, update
\* it when the equality check fails, leave it otherwise; wait for its status
CreateDisk ==
  /\ mpc = "create"
  /\ LET e == build_entity(params, p_id)
     IN  IF CreateTarget = NoId
           THEN /\ disks' = Append(disks, AddedDisk(e))
                /\ ops' = Append(ops, Op("disk.add", SizeOf(e.provisioned_size), -1))
                /\ ret' = [changed |-> TRUE, id |-> AddedDisk(e).id]
           ELSE LET d == DiskOf(disks, CreateTarget)
                IN  IF ~DiskUpdateNeeded(params, d)
                      THEN /\ ret' = [changed |-> FALSE, id |-> d.id]
                           /\ UNCHANGED <<disks, ops>>
                      ELSE /\ ~Shrinks(d, e)
                           /\ disks' = ReplaceDisk(disks, UpdatedDisk(d, e))
                           /\ ops' = Append(ops, Op("disk.update",
                                                    SizeOf(e.provisioned_size),
                                                    d.provisioned_size))
                           /\ ret' = [changed |-> TRUE, id |-> d.id]
  /\ is_new_disk' = ret'.changed
  /\ mpc' = NextStep("create")
  /\ UNCHANGED <<run, params, p_id, attachments, disk, mresult, closed, prev>>
  /\ UNCHANGED <<uvars, svars>>

\* lines 461-464: the management service rejects the add or the update
CreateDiskFails ==
  /\ mpc = "create"
  /\ LET e == build_entity(params, p_id)
     IN  IF CreateTarget = NoId
           THEN ops' = Append(ops, Op("disk.add", SizeOf(e.provisioned_size), -1))
           ELSE /\ DiskUpdateNeeded(params, DiskOf(disks, CreateTarget))
                /\ ops' = Append(ops, Op("disk.update", SizeOf(e.provisioned_size),
                                         DiskOf(disks, CreateTarget).provisioned_size))
  /\ MainFail(RemoteOperationError)
  /\ UNCHANGED <<run, params, p_id, disks, attachments, disk, ret, is_new_disk,
                 closed, prev>>
  /\ UNCHANGED <<uvars, svars>>

\* lines 461-464: the disk was added and the wait for status OK timed out
CreateDiskTimeout ==
  /\ mpc = "create"
  /\ params.logical_unit = None
  /\ CreateTarget = NoId
  /\ LET e == build_entity(params, p_id)
     IN  /\ disks' = Append(disks, AddedDisk(e))
         /\ ops' = Append(ops, Op("disk.add", SizeOf(e.provisioned_size), -1))
  /\ MainFail(TimeoutExceeded)
  /\ UNCHANGED <<run, params, p_id, attachments, disk, ret, is_new_disk, closed, prev>>
  /\ UNCHANGED <<uvars, svars>>

\* lines 466-469: ret['changed'] or update_storage_domains(ret['id']): the
\* placement is reconciled only when create reported no change
Placement ==
  /\ mpc = "placement"
  /\ IF ret.changed
       THEN UNCHANGED <<disks, ops, ret>>
       ELSE LET d == DiskOf(disks, ret.id)
                acts == PlacementActions(params, d)
            IN  /\ ops' = ops \o acts
                /\ disks' = IF MoveSent(params, d)
                              THEN ReplaceDisk(disks,
                                     [d EXCEPT !.sd = search_by_name_id(Val(params.storage_domain))])
                              ELSE disks
                /\ ret' = [ret EXCEPT !.changed = acts # <<>>]
  /\ p_id' = Some(IF disk = NoId THEN ret.id ELSE disk)
  /\ mpc' = NextStep("placement")
  /\ UNCHANGED <<run, params, attachments, disk, is_new_disk, mresult, closed, prev>>
  /\ UNCHANGED <<uvars, svars>>

\* line 466: the first move or copy action fails
PlacementFails ==
  /\ mpc = "placement"
  /\ ~ret.changed
  /\ PlacementActions(params, DiskOf(disks, ret.id)) # <<>>
  /\ ops' = Append(ops, Head(PlacementActions(params, DiskOf(disks, ret.id))))
  /\ \E e \in {RemoteOperationError, TimeoutExceeded} : MainFail(e)
  /\ UNCHANGED <<run, params, p_id, disks, attachments, disk, ret, is_new_disk,
                 closed, prev>>
  /\ UNCHANGED <<uvars, svars>>

\* lines 471-474: upload_disk_image, when it runs, returns True
Upload ==
  /\ mpc = "upload"
  /\ IF UploadWanted(params, is_new_disk)
       THEN /\ ops' = Append(ops, Op("upload", -1, -1))
            /\ ret' = [ret EXCEPT !.changed = TRUE]
       ELSE UNCHANGED <<ops, ret>>
  /\ mpc' = NextStep("upload")
  /\ UNCHANGED <<run, params, p_id, disks, attachments, disk, is_new_disk, mresult,
                 closed, prev>>
  /\ UNCHANGED <<uvars, svars>>

\* line 473: upload_disk_image raises
UploadFails ==
  /\ mpc = "upload"
  /\ UploadWanted(params, is_new_disk)
  /\ ops' = Append(ops, Op("upload", -1, -1))
  /\ \E e \in {TransferChunkError, TransferFailedError("CANCELLED")} : MainFail(e)
  /\ UNCHANGED <<run, params, p_id, disks, attachments, disk, ret, is_new_disk,
                 closed, prev>>
  /\ UNCHANGED <<uvars, svars>>

\* lines 475-476: disks_module.remove()
RemoveDisk ==
  /\ mpc = "remove"
  /\ LET found == search_entity(disks, p_id, params.name)
     IN  IF found = NoId
           THEN /\ ret' = [changed |-> FALSE, id |-> NoId]
                /\ UNCHANGED <<disks, attachments, ops>>
           ELSE /\ disks' = SelectSeq(disks, LAMBDA d : d.id # found)
                /\ attachments' = {a \in attachments : a.disk # found}
                /\ ops' = Append(ops, Op("disk.remove", -1, -1))
                /\ ret' = [changed |-> TRUE, id |-> found]
  /\ mpc' = NextStep("remove")
  /\ UNCHANGED <<run, params, p_id, disk, is_new_disk, mresult, closed, prev>>
  /\ UNCHANGED <<uvars, svars>>

\* line 476: the management service rejects the removal
RemoveDiskFails ==
  /\ mpc = "remove"
  /\ search_entity(disks, p_id, params.name) # NoId
  /\ ops' = Append(ops, Op("disk.remove", -1, -1))
  /\ MainFail(RemoteOperationError)
  /\ UNCHANGED <<run, params, p_id, disks, attachments, disk, ret, is_new_disk,
                 closed, prev>>
  /\ UNCHANGED <<uvars, svars>>

\* lines 479-485: no VM part, or the VM is resolved
ResolveVm ==
  /\ mpc = "vm"
  /\ IF ~VmGate(params)
       THEN mpc' = NextStep("attach")
       ELSE /\ IF params.vm_id # None
                 THEN TRUE
                 ELSE vm_search_by_name_id(Val(params.vm_name)) # NotFound
            /\ mpc' = "attach"
  /\ UNCHANGED <<run, params, p_id, disks, attachments, disk, ret, is_new_disk, ops,
                 mresult, closed, prev>>
  /\ UNCHANGED <<uvars, svars>>

\* lines 485-490: fail_json("VM don't exists, please create it first.")
VmNotFound ==
  /\ mpc = "vm"
  /\ VmGate(params)
  /\ params.vm_id = None
  /\ vm_search_by_name_id(Val(params.vm_name)) = NotFound
  /\ MainFail(ReferenceNotFoundError)
  /\ UNCHANGED <<run, params, p_id, disks, attachments, disk, ret, is_new_disk, ops,
                 closed, prev>>
  /\ UNCHANGED <<uvars, svars>>

\* the attachment the management service creates from a DiskAttachment entity
AddedAttachment(e) ==
  Attachment(Val(e.disk.id),
             IF e.interface # None THEN Val(e.interface) ELSE "VIRTIO",
             IF e.bootable # None THEN Val(e.bootable) ELSE FALSE)
UpdatedAttachment(a, e) ==
  [a EXCEPT !.interface = IF e.interface # None THEN Val(e.interface) ELSE @,
            !.bootable = IF e.bootable # None THEN Val(e.bootable) ELSE @]

\* lines 492-510: disk_attachments_module.create() and the wait for the disk
\* (present, attached), disk_attachments_module.remove() (detached)
Attach ==
  /\ mpc = "attach"
  /\ LET e == attachment_build_entity(params, p_id)
     IN  CASE params.state \in {"present", "attached"} ->
                IF AttachmentsOf(p_id) = {}
                  THEN /\ attachments' = attachments \cup {AddedAttachment(e)}
                       /\ ops' = Append(ops, Op("attachment.add", -1, -1))
                       /\ ret' = [changed |-> TRUE, id |-> Val(p_id)]
                       /\ disks' = disks
                  ELSE LET a == CHOOSE a \in AttachmentsOf(p_id) : TRUE
                           d == DiskOf(disks, a.disk)
                       IN  IF update_check(params, a, d)
                             THEN /\ ret' = [changed |-> ret.changed, id |-> Val(p_id)]
                                  /\ UNCHANGED <<attachments, disks, ops>>
                             ELSE /\ ~Shrinks(d, e.disk)
                                  /\ attachments' =
                                       (attachments \ {a}) \cup {UpdatedAttachment(a, e)}
                                  /\ disks' = ReplaceDisk(disks, UpdatedDisk(d, e.disk))
                                  /\ ops' = Append(ops, Op("attachment.update",
                                                           SizeOf(e.disk.provisioned_size),
                                                           d.provisioned_size))
                                  /\ ret' = [changed |-> TRUE, id |-> Val(p_id)]
           [] params.state = "detached" ->
                IF AttachmentsOf(p_id) = {}
                  THEN /\ ret' = [changed |-> ret.changed, id |-> NoId]
                       /\ UNCHANGED <<attachments, disks, ops>>
                  ELSE /\ attachments' = attachments \ AttachmentsOf(p_id)
                       /\ ops' = Append(ops, Op("attachment.remove", -1, -1))
                       /\ ret' = [changed |-> TRUE, id |-> Val(p_id)]
                       /\ disks' = disks
           [] OTHER -> UNCHANGED <<attachments, disks, ops, ret>>
  /\ mpc' = NextStep("attach")
  /\ UNCHANGED <<run, params, p_id, disk, is_new_disk, mresult, closed, prev>>
  /\ UNCHANGED <<uvars, svars>>

\* lines 501-510: the management service rejects the request of the attachment
\* step, or the wait of lines 503-508 times out
AttachFails ==
  /\ mpc = "attach"
  /\ LET e == attachment_build_entity(params, p_id)
     IN  CASE params.state \in {"present", "attached"} ->
                IF AttachmentsOf(p_id) = {}
                  THEN ops' = Append(ops, Op("attachment.add", -1, -1))
                  ELSE LET a == CHOOSE a \in AttachmentsOf(p_id) : TRUE
                           d == DiskOf(disks, a.disk)
                       IN  /\ ~update_check(params, a, d)
                           /\ ops' = Append(ops, Op("attachment.update",
                                                    SizeOf(e.disk.provisioned_size),
                                                    d.provisioned_size))
           [] params.state = "detached" ->
                /\ AttachmentsOf(p_id) # {}
                /\ ops' = Append(ops, Op("attachment.remove", -1, -1))
           [] OTHER -> FALSE
  /\ \E err \in {RemoteOperationError, TimeoutExceeded} : MainFail(err)
  /\ UNCHANGED <<run, params, p_id, disks, attachments, disk, ret, is_new_disk,
                 closed, prev>>
  /\ UNCHANGED <<uvars, svars>>

\* line 512: module.exit_json(**ret)
ExitJson ==
  /\ mpc = "exit"
  /\ mresult' = [failed |-> FALSE, changed |-> ret.changed, error |-> NoError]
  /\ mpc' = "close"
  /\ UNCHANGED <<run, params, p_id, disks, attachments, disk, ret, is_new_disk, ops,
                 closed, prev>>
  /\ UNCHANGED <<uvars, svars>>

\* lines 515-516: connection.close(logout=False)
CloseConnection ==
  /\ mpc = "close"
  /\ closed' = Append(closed, FALSE)
  /\ mpc' = "closed"
  /\ UNCHANGED <<run, params, p_id, disks, attachments, disk, ret, is_new_disk, ops,
                 mresult, prev>>
  /\ UNCHANGED <<uvars, svars>>

\* the disk was added by this invocation
DiskCreated == \E i \in 1..Len(ops) : ops[i].op = "disk.add"

\* the module is invoked again with the same declaration
Rerun ==
  /\ mpc = "closed"
  /\ run < MaxRuns
  /\ run' = run + 1
  /\ prev' = [ok |-> ~mresult.failed, created |-> DiskCreated]
  /\ p_id' = None
  /\ disk' = NoId
  /\ ret' = NoRet
  /\ is_new_disk' = FALSE
  /\ ops' = <<>>
  /\ mresult' = NoResult
  /\ closed' = <<>>
  /\ mpc' = "lun_lookup"
  /\ UNCHANGED <<params, disks, attachments>>
  /\ UNCHANGED <<uvars, svars>>

Next ==
  \/ LunLookup
  \/ CreateDisk
  \/ CreateDiskFails
  \/ CreateDiskTimeout
  \/ Placement
  \/ PlacementFails
  \/ Upload
  \/ UploadFails
  \/ RemoveDisk
  \/ RemoveDiskFails
  \/ ResolveVm
  \/ VmNotFound
  \/ Attach
  \/ AttachFails
  \/ ExitJson
  \/ CloseConnection
  \/ Rerun

Spec == InitMain /\ [][Next]_vars

(***************************************************************************)
(* Claims about main and the reconcilers, checked under Spec               *)
(***************************************************************************)
UploadRan == \E i \in 1..Len(ops) : ops[i].op = "upload"

\* the requests that create or change something at the management service
Mutations ==
  {"disk.add", "disk.update", "disk.move", "disk.copy", "disk.remove", "upload",
   "attachment.add", "attachment.update", "attachment.remove"}

\* C8: no update request (of the disk, or of its attachment) carries a
\* provisioned size smaller than the provisioned size of the existing disk.
C8_NoShrinkSent ==
  \A i \in 1..Len(ops) :
    ops[i].op \in {"disk.update", "attachment.update"} =>
      (ops[i].size = -1 \/ ops[i].size >= ops[i].live)

\* the declaration is one the reflexivity claim covers, and the invocation
\* before this one created the disk from it and succeeded
SecondRunAfterCreate ==
  /\ run = 2
  /\ prev.ok
  /\ prev.created
  /\ params.storage_domains = <<>>
  /\ params.image_path = None
  /\ ~params.force

\* C9: when the same declaration (no storage_domains, image_path, force) is
\* run again after the run that created the disk (and the attachment, when a VM
\* is given), the second run sends no add, update, move, copy, upload or remove,
\* does not fail and reports changed = false.
C9_SecondRunNoOp ==
  SecondRunAfterCreate =>
    /\ \A i \in 1..Len(ops) : ops[i].op \notin Mutations
    /\ mpc \in {"close", "closed"} => (~mresult.failed /\ ~mresult.changed)

\* C9 witness: a disk declared with size, interface and VM was created and
\* attached by the first run, and the second run has ended.
C9_Witness ==
  /\ SecondRunAfterCreate
  /\ mpc = "closed"
  /\ params.state = "present"
  /\ params.vm_name = Some("vm1")
  /\ params.size # None
  /\ params.interface # None
  /\ ~mresult.changed
  /\ \E a \in attachments : a.disk = "disk-1"

\* C10: in states present, attached and detached the upload runs if and only
\* if an image path is declared and (the disk was created by this invocation or
\* force is set).
C10_UploadIffNewOrForced ==
  params.state \in {"present", "attached", "detached"} =>
    /\ UploadRan => (params.image_path # None /\ (DiskCreated \/ params.force))
    /\ (/\ mpc \in {"vm", "attach", "exit"}
        /\ params.image_path # None
        /\ (DiskCreated \/ params.force)) => UploadRan

(***************************************************************************)
(* _search_by_lun (lines 214-223) on lists of several disks                *)
(***************************************************************************)
\* the lists of disks searched have up to MaxLunDisks disks
MaxLunDisks == 3

\* a second disk of LUN A
SecondLunDiskA == [LunDisk("A") EXCEPT !.id = "lun-A2"]

\* the disks the lists are made of: two disks of LUN A, one of LUN B, an image
LunListDisks == {LunDisk("A"), SecondLunDiskA, LunDisk("B"), ImageDisk("", 1024 * 1024)}

\* the declarations of a disk by its logical unit alone
LunDeclarations ==
  {[p EXCEPT !.logical_unit = Some(x)] :
     p \in {q \in ParamSpace : DeclaredOptions(q) = {"logical_unit"}},
     x \in {"A", "B"}}

\* main up to the LUN lookup of lines 454-456
InitLun ==
  /\ UploadIdle
  /\ StorageIdle
  /\ waited = 0
  /\ timeout = 1
  /\ mpc = "lun_lookup"
  /\ run = 1
  /\ params \in LunDeclarations
  /\ p_id = None
  /\ disks \in SeqsUpTo(LunListDisks, MaxLunDisks)
  /\ attachments = {}
  /\ disk = NoId
  /\ ret = NoRet
  /\ is_new_disk = FALSE
  /\ ops = <<>>
  /\ mresult = NoResult
  /\ closed = <<>>
  /\ prev = NoPrev

NextLun == LunLookup

SpecLun == InitLun /\ [][NextLun]_vars

\* the positions of the LUN-typed disks of ds whose LUN id is x
LunMatches(ds, x) ==
  {i \in 1..Len(ds) : ds[i].type = "lun" /\ ds[i].lun_storage_id = x}

\* C11: once the lookup has run, the disk it found is the first LUN-typed disk
\* of the list whose LUN id is the one searched for, and no disk when no
\* LUN-typed disk has that id; an image-typed disk is never found.
C11_LunLookupFirstMatch ==
  mpc # "lun_lookup" =>
    LET m == LunMatches(disks, Val(params.logical_unit))
    IN  /\ m = {} => disk = NoId
        /\ m # {} => /\ disk = disks[CHOOSE i \in m : \A j \in m : i <= j].id
                     /\ DiskOf(disks, disk).type = "lun"

\* C11 witness: an image disk comes before two disks of LUN A; the lookup of A
\* returned the first of the two.
C11_Witness ==
  /\ mpc # "lun_lookup"
  /\ params.logical_unit = Some("A")
  /\ Len(disks) = 3
  /\ disks[1].type = "image"
  /\ disks[2] = SecondLunDiskA
  /\ disks[3] = LunDisk("A")
  /\ disk = "lun-A2"

(***************************************************************************)
(* Claims about the steps of main, checked under Spec                      *)
(***************************************************************************)
\* the number of requests of kind k sent so far
Count(k) == Cardinality({i \in 1..Len(ops) : ops[i].op = k})

\* the declaration {name d1, size 1GiB, format cow, vm_name vm1, state present}
EndToEndDeclaration ==
  /\ params.name = Some("d1")
  /\ params.size = Some([n |-> 1, unit |-> "GiB"])
  /\ params.format = "cow"
  /\ params.vm_name = Some("vm1")
  /\ params.state = "present"
  /\ DeclaredOptions(params) = {"vm", "size"}

\* the first invocation, and the management service held no disk when it began
FirstRunOnEmptyDiskSet ==
  /\ run = 1
  /\ \/ disks = <<>>
     \/ /\ Len(disks) = 1
        /\ disks[1].id = "disk-1"
        /\ ops # <<>>
        /\ ops[1].op = "disk.add"

\* C12: the end-to-end declaration against an empty disk set and the existing
\* VM vm1 sends at most one disk create and one attachment create and no
\* update, move, copy, upload or remove; when the invocation ends without a
\* failure it sent exactly the disk create (sparse, size in bytes) and then the
\* attachment create for that disk on vm1, and the result is changed = true.
C12_EndToEndCreateAndAttach ==
  (EndToEndDeclaration /\ FirstRunOnEmptyDiskSet) =>
    /\ \A i \in 1..Len(ops) : ops[i].op \in {"disk.add", "attachment.add"}
    /\ Count("disk.add") <= 1
    /\ Count("attachment.add") <= 1
    /\ (mpc \in {"close", "closed"} /\ ~mresult.failed) =>
         /\ ops = <<Op("disk.add", 1024 * 1024 * 1024, -1), Op("attachment.add", -1, -1)>>
         /\ Len(disks) = 1
         /\ disks[1].name = Some("d1")
         /\ disks[1].sparse
         /\ disks[1].format = "cow"
         /\ disks[1].provisioned_size = 1024 * 1024 * 1024
         /\ attachments = {Attachment(disks[1].id, "VIRTIO", FALSE)}
         /\ mresult.changed

\* C12 witness: the end-to-end invocation has ended without a failure, the disk
\* exists and is attached.
C12_Witness ==
  /\ EndToEndDeclaration
  /\ FirstRunOnEmptyDiskSet
  /\ mpc = "closed"
  /\ ~mresult.failed
  /\ mresult.changed
  /\ Count("disk.add") = 1
  /\ Count("attachment.add") = 1
  /\ \E a \in attachments : a.disk = disks[1].id

\* C13: with state absent the only requests sent are the LUN lookup (a read)
\* and at most one removal of the disk: no disk create or update, no move or
\* copy, no upload, no attachment create, update or remove, whether vm_id or
\* vm_name is given or not.
C13_AbsentOnlyRemoves ==
  params.state = "absent" =>
    /\ \A i \in 1..Len(ops) : ops[i].op \in {"disks.list", "disk.remove"}
    /\ Count("disk.remove") <= 1

\* C13 witness: state absent with vm_id given: the VM condition of line 479
\* held, the attachment step ran, and the invocation ended having sent the
\* removal of the disk only.
C13_Witness ==
  /\ params.state = "absent"
  /\ params.vm_id # None
  /\ mpc = "closed"
  /\ ~mresult.failed
  /\ ops = <<Op("disk.remove", -1, -1)>>

\* the VM is referenced by a name no VM has, no vm_id is given, state is not
\* absent
VmNameUnresolved ==
  /\ params.state # "absent"
  /\ params.vm_id = None
  /\ params.vm_name = Some("ghost")

\* C14: when the VM name resolves to no VM (no vm_id, state not absent), no
\* attachment create, update or remove is ever sent and the attachment step and
\* exit_json are never reached; the step main takes at the VM resolution ends
\* the invocation as failed with ReferenceNotFoundError, sending nothing.
C14_VmNotFoundFails ==
  /\ [](VmNameUnresolved =>
          /\ mpc \notin {"attach", "exit"}
          /\ \A i \in 1..Len(ops) :
               ops[i].op \notin {"attachment.add", "attachment.update",
                                 "attachment.remove"}
          /\ mpc \in {"close", "closed"} => mresult.failed)
  /\ [][(VmNameUnresolved /\ mpc = "vm") =>
          /\ mpc' = "close"
          /\ mresult'.failed
          /\ mresult'.error = ReferenceNotFoundError
          /\ ops' = ops]_vars

\* C14 witness: the disk was created, then the VM named was not found and the
\* invocation ended as failed with ReferenceNotFoundError.
C14_Witness ==
  /\ VmNameUnresolved
  /\ mpc = "closed"
  /\ mresult.failed
  /\ mresult.error = ReferenceNotFoundError
  /\ DiskCreated

(***************************************************************************)
(* Further claims about upload_disk_image, checked under SpecUpload        *)
(***************************************************************************)
\* C15: once the context of the proxy connection is built: when the insecure
\* flag is not set and a CA file is given, the file loaded into the trust
\* store is the one auth.ca_file names; when the insecure flag is set, the
\* hostname check and the certificate validation are off and no CA file is
\* loaded.
C15_CaFileFromCaller ==
  context # NoContext =>
    /\ (~auth.insecure /\ auth.ca_file # None) => context.cafile = auth.ca_file
    /\ auth.insecure => /\ ~context.check_hostname
                        /\ context.verify_mode = "CERT_NONE"
                        /\ context.cafile = None

\* a declared description, size (in bytes) or shareable flag differs from the
\* value the disk d has
DeclaredDiffers(p, d) ==
  \/ p.description # None /\ Val(p.description) # d.description
  \/ p.size # None /\ Val(p.size).n * UnitBytes(Val(p.size).unit) # d.provisioned_size
  \/ p.shareable # None /\ Val(p.shareable) # d.shareable

\* C16: the reconcile step of an existing image-backed disk sends exactly one
\* update request when the declared description, size in bytes or shareable
\* flag differs from the disk's, and sends nothing when the three match,
\* whatever the declared format and whether a VM is referenced or not.
C16_UpdateIffAttributeDiffers ==
  [][(/\ mpc = "create"
      /\ CreateTarget # NoId
      /\ DiskOf(disks, CreateTarget).type = "image") =>
       IF DeclaredDiffers(params, DiskOf(disks, CreateTarget))
         THEN /\ Len(ops') = Len(ops) + 1
              /\ SubSeq(ops', 1, Len(ops)) = ops
              /\ ops'[Len(ops')].op = "disk.update"
         ELSE ops' = ops]_vars

\* C16 witness: the existing disk is cow and 1 MiB, the declaration says raw
\* and 2MiB and references a VM: the update was sent for the size, the disk
\* kept its format, and the invocation went on to the attachment.
C16_Witness ==
  /\ run = 1
  /\ mpc = "closed"
  /\ params.format = "raw"
  /\ params.size = Some([n |-> 2, unit |-> "MiB"])
  /\ params.vm_name = Some("vm1")
  /\ Len(ops) >= 1
  /\ ops[1] = Op("disk.update", 2 * 1024 * 1024, 1024 * 1024)
  /\ Len(disks) = 1
  /\ disks[1].format = "cow"
  /\ disks[1].provisioned_size = 2 * 1024 * 1024

\* the place of a request in the order of main: LUN lookup, disk create or
\* update (or removal), storage placement, image upload, attachment
Rank(o) ==
  CASE o.op = "disks.list" -> 1
    [] o.op \in {"disk.add", "disk.update", "disk.remove"} -> 2
    [] o.op \in {"disk.move", "disk.copy"} -> 3
    [] o.op = "upload" -> 4
    [] o.op \in {"attachment.add", "attachment.update", "attachment.remove"} -> 5

\* C17: the requests of an invocation are sent in the order LUN lookup, disk
\* create or update, storage placement, image upload, attachment: no request
\* of a later step comes before one of an earlier step, and each of the steps
\* LUN lookup, create or update and upload sends at most one request.
C17_FixedOrder ==
  /\ \A i, j \in 1..Len(ops) : i < j => Rank(ops[i]) <= Rank(ops[j])
  /\ \A k \in {"disks.list", "upload"} : Count(k) <= 1
  /\ Count("disk.add") + Count("disk.update") + Count("disk.remove") <= 1

\* C17 witness: a disk declared by its logical unit with an image and a VM:
\* the lookup, the create, the upload and the attachment were sent in that
\* order.
C17_Witness ==
  /\ mpc = "closed"
  /\ ~mresult.failed
  /\ ops = <<Op("disks.list", -1, -1), Op("disk.add", -1, -1), Op("upload", -1, -1),
             Op("attachment.add", -1, -1)>>

\* C18: the extend calls and the PUTs alternate, extend first: the number of
\* extend calls is the number of PUTs or one more; it is one more exactly when
\* a PUT is about to be sent, and equal at the top of the loop; an extend call
\* is made only inside the loop while data is left to send (pos < size), after
\* no failed chunk and with no error in flight.
C18_ExtendBeforeEachPut ==
  /\ [](/\ extends \in {Len(puts), Len(puts) + 1}
        /\ upc = "put" => extends = Len(puts) + 1
        /\ upc \in {"loop", "extend"} => extends = Len(puts))
  /\ [][extends' # extends =>
          /\ extends' = extends + 1
          /\ upc = "extend"
          /\ pos < size
          /\ pending = NoError
          /\ \A i \in 1..Len(puts) : ~ChunkFailed(puts[i][2]) /\ puts[i][2] # 0]_vars

\* C18 witness: an image of three chunks was sent with three extend calls, and
\* the upload returned True.
C18_Witness ==
  /\ uresult = ReturnTrue
  /\ size = 2 * chunk_size + 1
  /\ Len(puts) = 3
  /\ extends = 3

\* C19: an invocation that has called exit_json or fail_json is at the close
\* of the connection or past it; the step taken there is the one call
\* connection.close(logout=False); when the invocation is over the connection
\* was closed exactly once, without logout, and before that not at all; nothing
\* is sent to the management service after the close.
C19_ClosedExactlyOnce ==
  /\ [](/\ mresult # NoResult => mpc \in {"close", "closed"}
        /\ mpc = "closed" => closed = <<FALSE>>
        /\ mpc # "closed" => closed = <<>>)
  /\ [][/\ mpc = "close" => (mpc' = "closed" /\ closed' = <<FALSE>>)
        /\ (mpc = "closed" /\ run' = run) => ops' = ops]_vars

\* C19 witness: the upload failed on a chunk, the invocation ended as failed
\* and the connection was closed once.
C19_Witness ==
  /\ mpc = "closed"
  /\ mresult.failed
  /\ mresult.error = TransferChunkError
  /\ closed = <<FALSE>>

\* C20: an extend call or a PUT is made only when the phase read last by the
\* init poll is TRANSFERRING: while the chunk loop runs and has sent something,
\* transfer.phase (not read again before the finally block) is TRANSFERRING.
C20_NoDataUnlessTransferring ==
  (upc \in {"loop", "extend", "put"} /\ (extends > 0 \/ puts # <<>>)) =>
    transfer = "TRANSFERRING"

\* every chunk of the image was sent and answered with a status below 400,
\* finalize was requested and the phase read last is FINISHED_SUCCESS
UploadFullySucceeded ==
  /\ Len(puts) = ExpectedPuts
  /\ \A i \in 1..Len(puts) : puts[i][2] # 0 /\ puts[i][2] < 400
  /\ \A i \in 1..Len(puts) : puts[i][1] = ContentRange((i - 1) * chunk_size, size)
  /\ finalizes = 1
  /\ transfer = "FINISHED_SUCCESS"

\* C21: upload_disk_image returns True only when every chunk was sent and
\* answered with a status below 400, finalize was requested and the phase read
\* last is FINISHED_SUCCESS; an upload that has ended has returned True or
\* raised an error, and in every run where those conditions do not hold it
\* raised an error.
C21_TrueOnlyOnFullSuccess ==
  /\ uresult = ReturnTrue => UploadFullySucceeded
  /\ upc = "done" => uresult # NoError
  /\ (upc = "done" /\ ~UploadFullySucceeded) => uresult \notin {NoError, ReturnTrue}

\* C21 witness: an image of exactly one chunk was uploaded to a LUN disk: one
\* PUT, finalize, the session finished with success, the wait for the disk
\* ended and the upload returned True.
C21_Witness ==
  /\ upc = "done"
  /\ uresult = ReturnTrue
  /\ upload_lun
  /\ size = chunk_size
  /\ Len(puts) = 1
  /\ finalizes = 1
  /\ transfer = "FINISHED_SUCCESS"

====
